---- MODULE Spec2Model ----
(***************************************************************************)
(* Model of the Node.js binding of the text-to-cypher client               *)
(* (src/src/lib.rs): the TextToCypher class, its constructor and its six   *)
(* asynchronous methods.  Text that the code inspects, lower-cases or      *)
(* formats is a sequence of one-character strings; text that is only       *)
(* passed through (graph names, questions, message contents) is atomic.    *)
(***************************************************************************)
EXTENDS Integers, Sequences, FiniteSets, TLC

(***************************************************************************)
(* Bounds of the model.                                                    *)
(***************************************************************************)
\* longest conversation passed to text_to_cypher_with_messages
MaxMsgs == 2
\* most letters of one provider name written in upper case
MaxUpper == 2
\* invocations that may be in flight together on one client
NumCalls == 2
\* longest conversation in the concurrent specification
MaxConcMsgs == 1

(***************************************************************************)
(* Character tables and String::to_lowercase.                              *)
(***************************************************************************)
LowerLetters == <<"a", "b", "c", "d", "e", "f", "g", "h", "i", "j", "k", "l", "m", "n", "o", "p", "q", "r", "s", "t", "u", "v", "w", "x", "y", "z">>
UpperLetters == <<"A", "B", "C", "D", "E", "F", "G", "H", "I", "J", "K", "L", "M", "N", "O", "P", "Q", "R", "S", "T", "U", "V", "W", "X", "Y", "Z">>

LowerChar(c) ==
  IF \E i \in 1..26 : UpperLetters[i] = c
    THEN LowerLetters[CHOOSE i \in 1..26 : UpperLetters[i] = c]
    ELSE c

UpperChar(c) ==
  IF \E i \in 1..26 : LowerLetters[i] = c
    THEN UpperLetters[CHOOSE i \in 1..26 : LowerLetters[i] = c]
    ELSE c

to_lowercase(s) == [i \in 1..Len(s) |-> LowerChar(s[i])]

\* the caller's spelling of s with the letters at the positions in S capitalised
UpperAt(s, S) == [i \in 1..Len(s) |-> IF i \in S THEN UpperChar(s[i]) ELSE s[i]]

\* sub occurs in s as a contiguous run of characters
Contains(s, sub) ==
  \E i \in 1..(Len(s) - Len(sub) + 1) : SubSeq(s, i, i + Len(sub) - 1) = sub

Range(f) == {f[i] : i \in DOMAIN f}

(***************************************************************************)
(* String literals of the source.                                          *)
(***************************************************************************)
s_user == <<"u", "s", "e", "r">>
s_assistant == <<"a", "s", "s", "i", "s", "t", "a", "n", "t">>
s_system == <<"s", "y", "s", "t", "e", "m">>
s_openai == <<"o", "p", "e", "n", "a", "i">>
s_anthropic == <<"a", "n", "t", "h", "r", "o", "p", "i", "c">>
s_gemini == <<"g", "e", "m", "i", "n", "i">>
s_ollama == <<"o", "l", "l", "a", "m", "a">>
s_azure == <<"a", "z", "u", "r", "e">>
s_admin == <<"a", "d", "m", "i", "n">>
sep_comma == <<",", " ">>
fmt_role_pre == <<"I", "n", "v", "a", "l", "i", "d", " ", "m", "e", "s", "s", "a", "g", "e", " ", "r", "o", "l", "e", ":", " ", "'">>
fmt_role_post == <<"'", ".", " ", "M", "u", "s", "t", " ", "b", "e", " ", "'", "u", "s", "e", "r", "'", ",", " ", "'", "a", "s", "s", "i", "s", "t", "a", "n", "t", "'", ",", " ", "o", "r", " ", "'", "s", "y", "s", "t", "e", "m", "'">>
fmt_t2c == <<"T", "e", "x", "t", "-", "t", "o", "-", "C", "y", "p", "h", "e", "r", " ", "f", "a", "i", "l", "e", "d", ":", " ">>
fmt_cypher == <<"C", "y", "p", "h", "e", "r", " ", "g", "e", "n", "e", "r", "a", "t", "i", "o", "n", " ", "f", "a", "i", "l", "e", "d", ":", " ">>
fmt_schema == <<"S", "c", "h", "e", "m", "a", " ", "d", "i", "s", "c", "o", "v", "e", "r", "y", " ", "f", "a", "i", "l", "e", "d", ":", " ">>
fmt_prov_pre == <<"U", "n", "k", "n", "o", "w", "n", " ", "p", "r", "o", "v", "i", "d", "e", "r", ":", " ", "'">>
fmt_prov_post == <<"'", ".", " ", "S", "u", "p", "p", "o", "r", "t", "e", "d", " ", "p", "r", "o", "v", "i", "d", "e", "r", "s", " ", "a", "r", "e", ":", " ">>
supported_text == <<"o", "p", "e", "n", "a", "i", ",", " ", "a", "n", "t", "h", "r", "o", "p", "i", "c", ",", " ", "g", "e", "m", "i", "n", "i", ",", " ", "o", "l", "l", "a", "m", "a">>
e_timeout == <<"t", "i", "m", "e", "o", "u", "t">>
e_refused == <<"r", "e", "f", "u", "s", "e", "d">>

(***************************************************************************)
(* The curated model tables.                                               *)
(***************************************************************************)
get_openai_models ==
  << <<"g", "p", "t", "-", "4", "o", "-", "m", "i", "n", "i">>,
     <<"g", "p", "t", "-", "4", "o">>,
     <<"g", "p", "t", "-", "4", "-", "t", "u", "r", "b", "o">>,
     <<"g", "p", "t", "-", "4">>,
     <<"g", "p", "t", "-", "3", ".", "5", "-", "t", "u", "r", "b", "o">> >>
get_anthropic_models ==
  << <<"a", "n", "t", "h", "r", "o", "p", "i", "c", ":", "c", "l", "a", "u", "d", "e", "-", "3", "-", "5", "-", "s", "o", "n", "n", "e", "t", "-", "2", "0", "2", "4", "1", "0", "2", "2">>,
     <<"a", "n", "t", "h", "r", "o", "p", "i", "c", ":", "c", "l", "a", "u", "d", "e", "-", "3", "-", "o", "p", "u", "s", "-", "2", "0", "2", "4", "0", "2", "2", "9">>,
     <<"a", "n", "t", "h", "r", "o", "p", "i", "c", ":", "c", "l", "a", "u", "d", "e", "-", "3", "-", "s", "o", "n", "n", "e", "t", "-", "2", "0", "2", "4", "0", "2", "2", "9">>,
     <<"a", "n", "t", "h", "r", "o", "p", "i", "c", ":", "c", "l", "a", "u", "d", "e", "-", "3", "-", "h", "a", "i", "k", "u", "-", "2", "0", "2", "4", "0", "3", "0", "7">> >>
\* a table with an entry of another provider pasted in
get_gemini_models_pasted ==
  <<<<"o", "l", "l", "a", "m", "a", ":", "l", "l", "a", "m", "a", "2">>, <<"g", "e", "m", "i", "n", "i", ":", "x">>>>

get_gemini_models ==
  << <<"g", "e", "m", "i", "n", "i", ":", "g", "e", "m", "i", "n", "i", "-", "2", ".", "0", "-", "f", "l", "a", "s", "h", "-", "e", "x", "p">>,
     <<"g", "e", "m", "i", "n", "i", ":", "g", "e", "m", "i", "n", "i", "-", "1", ".", "5", "-", "p", "r", "o">>,
     <<"g", "e", "m", "i", "n", "i", ":", "g", "e", "m", "i", "n", "i", "-", "1", ".", "5", "-", "f", "l", "a", "s", "h">> >>
get_ollama_models ==
  << <<"o", "l", "l", "a", "m", "a", ":", "l", "l", "a", "m", "a", "2">>,
     <<"o", "l", "l", "a", "m", "a", ":", "l", "l", "a", "m", "a", "3">>,
     <<"o", "l", "l", "a", "m", "a", ":", "m", "i", "x", "t", "r", "a", "l">>,
     <<"o", "l", "l", "a", "m", "a", ":", "p", "h", "i", "3">> >>

SUPPORTED_PROVIDERS == <<s_openai, s_anthropic, s_gemini, s_ollama>>

\* [&str]::join
RECURSIVE join(_, _)
join(parts, sep) ==
  IF parts = <<>> THEN <<>>
  ELSE IF Len(parts) = 1 THEN parts[1]
  ELSE parts[1] \o sep \o join(Tail(parts), sep)

(***************************************************************************)
(* Values.  Option<String> is None or Some(x); Result is a record.         *)
(***************************************************************************)
None == <<>>
Some(x) == <<x>>

\* struct TextToCypherResponse, all fields absent
NoResponse ==
  [status |-> "", schema |-> None, cypher_query |-> None,
   cypher_result |-> None, answer |-> None, error |-> None]

\* what a call has delivered to its caller: nothing yet, Ok(..) or Err(..)
Pending ==
  [kind |-> "pending", response |-> NoResponse, list |-> <<>>, text |-> "",
   reason |-> <<>>]
OkResponse(r) == [Pending EXCEPT !.kind = "ok_response", !.response = r]
OkList(l) == [Pending EXCEPT !.kind = "ok_list", !.list = l]
OkText(t) == [Pending EXCEPT !.kind = "ok_text", !.text = t]
Rejected(reason) == [Pending EXCEPT !.kind = "err", !.reason = reason]

\* a conversion that forgets one field
from_response_lossy(response) ==
  [status |-> response.status,
   schema |-> response.schema,
   cypher_query |-> None,
   cypher_result |-> response.cypher_result,
   answer |-> response.answer,
   error |-> response.error]

\* impl From<text_to_cypher::TextToCypherResponse> for TextToCypherResponse
from_response(response) ==
  [status |-> response.status,
   schema |-> response.schema,
   cypher_query |-> response.cypher_query,
   cypher_result |-> response.cypher_result,
   answer |-> response.answer,
   error |-> response.error]

ChatMessage(role, content) == [role |-> role, content |-> content]

\* a closure that defaults an unrecognised role to User
convert_message_default(msg) ==
  LET lower == to_lowercase(msg.role) IN
  IF lower = s_assistant
    THEN [ok |-> TRUE, value |-> <<ChatMessage("Assistant", msg.content)>>, error |-> <<>>]
  ELSE IF lower = s_system
    THEN [ok |-> TRUE, value |-> <<ChatMessage("System", msg.content)>>, error |-> <<>>]
  ELSE [ok |-> TRUE, value |-> <<ChatMessage("User", msg.content)>>, error |-> <<>>]

\* the closure of text_to_cypher_with_messages: one Message to one ChatMessage
convert_message(msg) ==
  LET lower == to_lowercase(msg.role) IN
  IF lower = s_user
    THEN [ok |-> TRUE, value |-> <<ChatMessage("User", msg.content)>>, error |-> <<>>]
  ELSE IF lower = s_assistant
    THEN [ok |-> TRUE, value |-> <<ChatMessage("Assistant", msg.content)>>, error |-> <<>>]
  ELSE IF lower = s_system
    THEN [ok |-> TRUE, value |-> <<ChatMessage("System", msg.content)>>, error |-> <<>>]
  ELSE [ok |-> FALSE, value |-> <<>>,
        error |-> fmt_role_pre \o msg.role \o fmt_role_post]

\* a collection that returns the messages newest first
RECURSIVE collect_reversed(_)
collect_reversed(messages) ==
  IF messages = <<>> THEN [ok |-> TRUE, value |-> <<>>, error |-> <<>>]
  ELSE LET lower == to_lowercase(Head(messages).role)
           r == collect_reversed(Tail(messages)) IN
       IF lower \notin {s_user, s_assistant, s_system}
         THEN [ok |-> FALSE, value |-> <<>>,
               error |-> fmt_role_pre \o Head(messages).role \o fmt_role_post]
       ELSE IF ~r.ok THEN r
       ELSE [ok |-> TRUE,
             value |-> r.value \o
                <<ChatMessage(IF lower = s_user THEN "User"
                              ELSE IF lower = s_assistant THEN "Assistant"
                              ELSE "System", Head(messages).content)>>,
             error |-> <<>>]

\* .into_iter().map(..).collect::<Result<Vec<ChatMessage>>>(): in order,
\* stopping at the first Err
RECURSIVE collect(_)
collect(messages) ==
  IF messages = <<>> THEN [ok |-> TRUE, value |-> <<>>, error |-> <<>>]
  ELSE LET h == convert_message(Head(messages)) IN
       IF ~h.ok THEN h
       ELSE LET r == collect(Tail(messages)) IN
            IF ~r.ok THEN r
            ELSE [ok |-> TRUE, value |-> h.value \o r.value, error |-> <<>>]

\* the ChatRequest built by text_to_cypher and by cypher_only
single_question(question) == <<ChatMessage("User", question)>>

\* an Err arm that reports the lower-cased name
unknown_provider_lower(provider) ==
  fmt_prov_pre \o to_lowercase(provider) \o fmt_prov_post
    \o join(SUPPORTED_PROVIDERS, sep_comma)

\* the Err arm of list_models_by_provider
unknown_provider(provider) ==
  fmt_prov_pre \o provider \o fmt_prov_post \o join(SUPPORTED_PROVIDERS, sep_comma)

\* the match of list_models_by_provider
models_of(provider) ==
  LET provider_lower == to_lowercase(provider) IN
  IF provider_lower = s_openai THEN OkList(get_openai_models)
  ELSE IF provider_lower = s_anthropic THEN OkList(get_anthropic_models)
  ELSE IF provider_lower = s_gemini THEN OkList(get_gemini_models)
  ELSE IF provider_lower = s_ollama THEN OkList(get_ollama_models)
  ELSE Rejected(unknown_provider(provider))

\* an aggregate that leaves out the last provider
all_models_short ==
  get_openai_models \o get_anthropic_models \o get_gemini_models

\* the body of list_models
all_models ==
  get_openai_models \o get_anthropic_models \o get_gemini_models \o get_ollama_models

(***************************************************************************)
(* The client of the text_to_cypher crate, as the binding sees it: each    *)
(* entry point returns Result<_, E>.                                       *)
(***************************************************************************)
ClientErrors == {e_timeout, e_refused}

OptionValues(v) == {None, Some(v)}

\* the responses the pipeline returns: a success carries no error, an error
\* carries its message and nothing else
Responses ==
  {r \in [status : {"success", "error"},
           schema : OptionValues("schema"),
           cypher_query : OptionValues("MATCH"),
           cypher_result : OptionValues("rows"),
           answer : OptionValues("answer"),
           error : OptionValues("failure")] :
     /\ r.status = "success" => r.error = None
     /\ r.status = "error" =>
          /\ r.error # None /\ r.schema = None /\ r.cypher_query = None
          /\ r.cypher_result = None /\ r.answer = None}

ReplyOk(r) == [ok |-> TRUE, response |-> r, text |-> "", error |-> <<>>]
ReplyText(t) == [ok |-> TRUE, response |-> NoResponse, text |-> t, error |-> <<>>]
ReplyErr(e) == [ok |-> FALSE, response |-> NoResponse, text |-> "", error |-> e]

\* nothing returned yet
NoReply == [ok |-> FALSE, response |-> NoResponse, text |-> "", error |-> <<>>]

\* replies of client.text_to_cypher
FullReplies == {ReplyOk(r) : r \in Responses} \cup {ReplyErr(e) : e \in ClientErrors}

\* replies of client.cypher_only: generation-only mode produces no
\* cypher_result and no answer
GenerationReplies ==
  {ReplyOk(r) : r \in {x \in Responses :
                         x.status = "success" =>
                           /\ x.schema # None /\ x.cypher_query # None
                           /\ x.cypher_result = None /\ x.answer = None}}
    \cup {ReplyErr(e) : e \in ClientErrors}

\* replies of client.discover_schema
SchemaReplies == {ReplyText("schema")} \cup {ReplyErr(e) : e \in ClientErrors}

(***************************************************************************)
(* State.                                                                  *)
(***************************************************************************)
VARIABLES
  client,      \* the field TextToCypher.client: the configuration it holds
  constructed, \* what the constructor returned: "none", "ok" or "err"
  calls        \* per invocation: position, arguments, client calls, outcome

vars == <<client, constructed, calls>>

NoClient == [model |-> "", api_key |-> "", falkordb_connection |-> ""]

Calls == 1..NumCalls

Idle ==
  [pc |-> "idle", op |-> "", graph_name |-> "", question |-> "",
   messages |-> <<>>, provider |-> <<>>, invoked |-> <<>>,
   returned |-> NoReply, outcome |-> Pending]

\* one call of an entry point of the client
Invocation(entry, graph_name, messages) ==
  [entry |-> entry, graph_name |-> graph_name, messages |-> messages]

Init ==
  /\ client = NoClient
  /\ constructed = "none"
  /\ calls = [s \in Calls |-> Idle]

(***************************************************************************)
(* Operations.                                                             *)
(***************************************************************************)
\* a constructor that validates the API key
TextToCypher_new_validating(options) ==
  /\ constructed = "none"
  /\ IF options.api_key = ""
       THEN client' = client /\ constructed' = "err"
       ELSE /\ client' = [model |-> options.model, api_key |-> options.api_key,
                          falkordb_connection |-> options.falkordb_connection]
            /\ constructed' = "ok"
  /\ UNCHANGED calls

\* TextToCypher::new
TextToCypher_new(options) ==
  /\ constructed = "none"
  /\ client' = [model |-> options.model, api_key |-> options.api_key,
                falkordb_connection |-> options.falkordb_connection]
  /\ constructed' = "ok"
  /\ UNCHANGED calls

\* text_to_cypher up to the await on client.text_to_cypher
text_to_cypher(s, graph_name, question) ==
  /\ constructed = "ok"
  /\ calls[s].pc = "idle"
  /\ calls' = [calls EXCEPT ![s] =
       [Idle EXCEPT !.pc = "awaiting", !.op = "text_to_cypher",
                    !.graph_name = graph_name, !.question = question,
                    !.invoked = <<Invocation("text_to_cypher", graph_name,
                                             single_question(question))>>]]
  /\ UNCHANGED <<client, constructed>>

\* the match on what client.text_to_cypher returned
text_to_cypher_done(s, reply) ==
  /\ calls[s].pc = "awaiting"
  /\ calls[s].op = "text_to_cypher"
  /\ calls' = [calls EXCEPT ![s].pc = "done", ![s].returned = reply,
                             ![s].outcome =
       IF reply.ok THEN OkResponse(from_response(reply.response))
       ELSE Rejected(fmt_t2c \o reply.error)]
  /\ UNCHANGED <<client, constructed>>

\* a variant whose rejection also drops the shared configuration
text_to_cypher_with_messages_reset(s, graph_name, messages) ==
  /\ constructed = "ok"
  /\ calls[s].pc = "idle"
  /\ LET chat_messages == collect(messages)
         start == [Idle EXCEPT !.op = "text_to_cypher_with_messages",
                               !.graph_name = graph_name,
                               !.messages = messages]
     IN IF chat_messages.ok
          THEN /\ calls' = [calls EXCEPT ![s] =
                     [start EXCEPT !.pc = "awaiting",
                        !.invoked = <<Invocation("text_to_cypher", graph_name,
                                                 chat_messages.value)>>]]
               /\ client' = client
          ELSE /\ calls' = [calls EXCEPT ![s] =
                     [start EXCEPT !.pc = "done",
                        !.outcome = Rejected(chat_messages.error)]]
               /\ client' = NoClient
  /\ UNCHANGED constructed

\* text_to_cypher_with_messages up to the await, or to the `?` that returns
text_to_cypher_with_messages(s, graph_name, messages) ==
  /\ constructed = "ok"
  /\ calls[s].pc = "idle"
  /\ LET chat_messages == collect(messages)
         start == [Idle EXCEPT !.op = "text_to_cypher_with_messages",
                               !.graph_name = graph_name,
                               !.messages = messages]
     IN calls' = [calls EXCEPT ![s] =
          IF chat_messages.ok
            THEN [start EXCEPT !.pc = "awaiting",
                    !.invoked = <<Invocation("text_to_cypher", graph_name,
                                             chat_messages.value)>>]
            ELSE [start EXCEPT !.pc = "done",
                    !.outcome = Rejected(chat_messages.error)]]
  /\ UNCHANGED <<client, constructed>>

\* the match on what client.text_to_cypher returned
text_to_cypher_with_messages_done(s, reply) ==
  /\ calls[s].pc = "awaiting"
  /\ calls[s].op = "text_to_cypher_with_messages"
  /\ calls' = [calls EXCEPT ![s].pc = "done", ![s].returned = reply,
                             ![s].outcome =
       IF reply.ok THEN OkResponse(from_response(reply.response))
       ELSE Rejected(fmt_t2c \o reply.error)]
  /\ UNCHANGED <<client, constructed>>

\* a variant that calls the full pipeline
cypher_only_full(s, graph_name, question) ==
  /\ constructed = "ok"
  /\ calls[s].pc = "idle"
  /\ calls' = [calls EXCEPT ![s] =
       [Idle EXCEPT !.pc = "awaiting", !.op = "cypher_only",
                    !.graph_name = graph_name, !.question = question,
                    !.invoked = <<Invocation("text_to_cypher", graph_name,
                                             single_question(question))>>]]
  /\ UNCHANGED <<client, constructed>>

\* cypher_only up to the await on client.cypher_only
cypher_only(s, graph_name, question) ==
  /\ constructed = "ok"
  /\ calls[s].pc = "idle"
  /\ calls' = [calls EXCEPT ![s] =
       [Idle EXCEPT !.pc = "awaiting", !.op = "cypher_only",
                    !.graph_name = graph_name, !.question = question,
                    !.invoked = <<Invocation("cypher_only", graph_name,
                                             single_question(question))>>]]
  /\ UNCHANGED <<client, constructed>>

\* the match on what client.cypher_only returned
cypher_only_done(s, reply) ==
  /\ calls[s].pc = "awaiting"
  /\ calls[s].op = "cypher_only"
  /\ calls' = [calls EXCEPT ![s].pc = "done", ![s].returned = reply,
                             ![s].outcome =
       IF reply.ok THEN OkResponse(from_response(reply.response))
       ELSE Rejected(fmt_cypher \o reply.error)]
  /\ UNCHANGED <<client, constructed>>

\* discover_schema up to the await on client.discover_schema
discover_schema(s, graph_name) ==
  /\ constructed = "ok"
  /\ calls[s].pc = "idle"
  /\ calls' = [calls EXCEPT ![s] =
       [Idle EXCEPT !.pc = "awaiting", !.op = "discover_schema",
                    !.graph_name = graph_name,
                    !.invoked = <<Invocation("discover_schema", graph_name, <<>>)>>]]
  /\ UNCHANGED <<client, constructed>>

\* the match on what client.discover_schema returned
discover_schema_done(s, reply) ==
  /\ calls[s].pc = "awaiting"
  /\ calls[s].op = "discover_schema"
  /\ calls' = [calls EXCEPT ![s].pc = "done", ![s].returned = reply,
                             ![s].outcome =
       IF reply.ok THEN OkText(reply.text)
       ELSE Rejected(fmt_schema \o reply.error)]
  /\ UNCHANGED <<client, constructed>>

\* list_models: no await, the call runs to its return
list_models(s) ==
  /\ constructed = "ok"
  /\ calls[s].pc = "idle"
  /\ calls' = [calls EXCEPT ![s] =
       [Idle EXCEPT !.pc = "done", !.op = "list_models",
                    !.outcome = OkList(all_models)]]
  /\ UNCHANGED <<client, constructed>>

\* list_models_by_provider: no await, the call runs to its return
list_models_by_provider(s, provider) ==
  /\ constructed = "ok"
  /\ calls[s].pc = "idle"
  /\ calls' = [calls EXCEPT ![s] =
       [Idle EXCEPT !.pc = "done", !.op = "list_models_by_provider",
                    !.provider = provider,
                    !.outcome = models_of(provider)]]
  /\ UNCHANGED <<client, constructed>>

(***************************************************************************)
(* Arguments the callers supply.                                           *)
(***************************************************************************)
OptionInputs ==
  {[model |-> "gpt-4o-mini", api_key |-> "sk-key",
    falkordb_connection |-> "falkor://localhost:6379"],
   [model |-> "anthropic:claude-3", api_key |-> "",
    falkordb_connection |-> "falkor://localhost:6379"],
   [model |-> "", api_key |-> "sk-key", falkordb_connection |-> "not a url"]}

GraphInputs == {"movies", "social"}

QuestionInputs == {"q1", "q2"}

RoleInputs ==
  {s_user, UpperAt(s_user, 1..4), UpperAt(s_assistant, {1}), s_system,
   s_admin, <<>>}

MessageInputs == [role : RoleInputs, content : QuestionInputs]

Conversations(msgs, n) == UNION {[1..k -> msgs] : k \in 0..n}

ProviderBases ==
  {s_openai, s_anthropic, s_gemini, s_ollama, s_azure, <<>>, s_openai \o <<":">>}

ProviderInputs ==
  {UpperAt(b, S) : <<b, S>> \in
     UNION {{<<b, S>> : S \in {T \in SUBSET (1..Len(b)) : Cardinality(T) <= MaxUpper}}
            : b \in ProviderBases}}
    \cup {UpperAt(b, 1..Len(b)) : b \in ProviderBases}

\* the smaller argument sets of the concurrent specification
ConcMessageInputs == [role : {s_user, UpperAt(s_admin, {1})}, content : {"q1"}]

ConcProviderInputs == {UpperAt(s_openai, {1, 5}), s_azure}

ConcFullReplies ==
  {ReplyErr(e_timeout),
   ReplyOk([status |-> "success", schema |-> Some("schema"),
            cypher_query |-> Some("MATCH"), cypher_result |-> Some("rows"),
            answer |-> Some("answer"), error |-> None]),
   ReplyOk([status |-> "error", schema |-> None, cypher_query |-> None,
            cypher_result |-> None, answer |-> None,
            error |-> Some("failure")])}

ConcGenerationReplies == ConcFullReplies \cap GenerationReplies

(***************************************************************************)
(* Specifications.  Spec: one invocation on a client, over the full        *)
(* argument sets.  SpecConc: NumCalls invocations on one client, their     *)
(* steps interleaved in every order.                                       *)
(***************************************************************************)
Next ==
  \/ \E o \in OptionInputs : TextToCypher_new(o)
  \/ \E g \in GraphInputs, q \in QuestionInputs : text_to_cypher(1, g, q)
  \/ \E r \in FullReplies : text_to_cypher_done(1, r)
  \/ \E g \in GraphInputs, m \in Conversations(MessageInputs, MaxMsgs) :
       text_to_cypher_with_messages(1, g, m)
  \/ \E r \in FullReplies : text_to_cypher_with_messages_done(1, r)
  \/ \E g \in GraphInputs, q \in QuestionInputs : cypher_only(1, g, q)
  \/ \E r \in GenerationReplies : cypher_only_done(1, r)
  \/ \E g \in GraphInputs : discover_schema(1, g)
  \/ \E r \in SchemaReplies : discover_schema_done(1, r)
  \/ list_models(1)
  \/ \E p \in ProviderInputs : list_models_by_provider(1, p)

Spec == Init /\ [][Next]_vars

NextConc ==
  \/ \E o \in OptionInputs : TextToCypher_new(o)
  \/ \E s \in Calls :
       \/ text_to_cypher(s, "movies", "q1")
       \/ \E r \in ConcFullReplies : text_to_cypher_done(s, r)
       \/ \E m \in Conversations(ConcMessageInputs, MaxConcMsgs) :
            text_to_cypher_with_messages(s, "movies", m)
       \/ \E r \in ConcFullReplies : text_to_cypher_with_messages_done(s, r)
       \/ cypher_only(s, "movies", "q1")
       \/ \E r \in ConcGenerationReplies : cypher_only_done(s, r)
       \/ discover_schema(s, "movies")
       \/ \E r \in SchemaReplies : discover_schema_done(s, r)
       \/ list_models(s)
       \/ \E p \in ConcProviderInputs : list_models_by_provider(s, p)

SpecConc == Init /\ [][NextConc]_vars

(***************************************************************************)
(* Properties.                                                             *)
(***************************************************************************)
ValidRoles == {s_user, s_assistant, s_system}

\* some message of the conversation has a role outside the three, any case
HasBadRole(messages) ==
  \E i \in 1..Len(messages) : to_lowercase(messages[i].role) \notin ValidRoles

PipelineOps == {"text_to_cypher", "text_to_cypher_with_messages", "cypher_only"}

\* the calls of the pipeline entry points (with a ChatRequest) a call has made
RequestsOf(c) ==
  {i \in 1..Len(c.invoked) : c.invoked[i].entry \in {"text_to_cypher", "cypher_only"}}

Distinct(l) == \A i, j \in 1..Len(l) : i # j => l[i] # l[j]

\* C1: a text_to_cypher_with_messages call whose conversation holds a role
\* outside {user, assistant, system} (case-insensitively), at any position,
\* ends rejected with the invalid-role error and never invokes the client.
C1_InvalidRoleRejected ==
  \A s \in Calls :
    (calls[s].op = "text_to_cypher_with_messages" /\ HasBadRole(calls[s].messages))
      => /\ calls[s].pc = "done"
         /\ calls[s].outcome.kind = "err"
         /\ SubSeq(calls[s].outcome.reason, 1, Len(fmt_role_pre)) = fmt_role_pre
         /\ calls[s].invoked = <<>>

\* a conversation rejected for its second message, the first being valid
C1_Witness ==
  \E s \in Calls :
    /\ calls[s].op = "text_to_cypher_with_messages"
    /\ calls[s].pc = "done"
    /\ Len(calls[s].messages) = 2
    /\ ~HasBadRole(<<calls[s].messages[1]>>)
    /\ HasBadRole(<<calls[s].messages[2]>>)

C3_UnknownProviderError ==
  \A s \in Calls :
    (calls[s].op = "list_models_by_provider" /\ calls[s].pc = "done")
      => /\ calls[s].outcome.kind = "ok_list"
              <=> to_lowercase(calls[s].provider) \in Range(SUPPORTED_PROVIDERS)
         /\ to_lowercase(calls[s].provider) \notin Range(SUPPORTED_PROVIDERS)
              => /\ calls[s].outcome.kind = "err"
                 /\ calls[s].outcome.list = <<>>
                 /\ Contains(calls[s].outcome.reason,
                             <<"'">> \o calls[s].provider \o <<"'">>)
                 /\ Contains(calls[s].outcome.reason, supported_text)

\* an unknown provider written with a capital letter
C3_Witness ==
  \E s \in Calls :
    /\ calls[s].op = "list_models_by_provider"
    /\ calls[s].pc = "done"
    /\ calls[s].outcome.kind = "err"
    /\ calls[s].provider # to_lowercase(calls[s].provider)

\* C4: a supported provider name in any letter case gets a non-empty list of
\* pairwise distinct identifiers, none holding the prefix of another
\* provider; the list is the one of the lower-cased name, and the client is
\* not invoked.
C4_ProviderList ==
  \A s \in Calls :
    (/\ calls[s].op = "list_models_by_provider"
     /\ calls[s].pc = "done"
     /\ to_lowercase(calls[s].provider) \in Range(SUPPORTED_PROVIDERS))
      => /\ calls[s].outcome.kind = "ok_list"
         /\ Len(calls[s].outcome.list) > 0
         /\ Distinct(calls[s].outcome.list)
         /\ \A q \in Range(SUPPORTED_PROVIDERS) \ {to_lowercase(calls[s].provider)} :
              \A i \in 1..Len(calls[s].outcome.list) :
                ~Contains(calls[s].outcome.list[i], q \o <<":">>)
         /\ calls[s].outcome = models_of(to_lowercase(calls[s].provider))
         /\ calls[s].invoked = <<>>

\* a supported provider written with capital letters
C4_Witness ==
  \E s \in Calls :
    /\ calls[s].op = "list_models_by_provider"
    /\ calls[s].pc = "done"
    /\ to_lowercase(calls[s].provider) = s_gemini
    /\ calls[s].provider # s_gemini

\* C5: the client's pipeline entry points are never invoked with an empty
\* message sequence.
C5_RequestNeverEmpty ==
  \A s \in Calls :
    \A i \in RequestsOf(calls[s]) : calls[s].invoked[i].messages # <<>>

\* C6: cypher_only invokes the client's cypher_only entry point exactly once
\* and no other entry point, and a successful response carries schema and
\* cypher_query and neither cypher_result nor answer.
C6_GenerationOnly ==
  \A s \in Calls :
    (calls[s].op = "cypher_only" /\ calls[s].pc # "idle")
      => /\ Len(calls[s].invoked) = 1
         /\ calls[s].invoked[1].entry = "cypher_only"
         /\ (/\ calls[s].pc = "done"
             /\ calls[s].outcome.kind = "ok_response"
             /\ calls[s].outcome.response.status = "success")
              => /\ calls[s].outcome.response.schema # None
                 /\ calls[s].outcome.response.cypher_query # None
                 /\ calls[s].outcome.response.cypher_result = None
                 /\ calls[s].outcome.response.answer = None

\* a cypher_only call that returned a successful response
C6_Witness ==
  \E s \in Calls :
    /\ calls[s].op = "cypher_only"
    /\ calls[s].pc = "done"
    /\ calls[s].outcome.kind = "ok_response"
    /\ calls[s].outcome.response.status = "success"

\* C7: the constructor returns a client for every options value, stores the
\* options as given and makes no call.
C7_ConstructionNeverFails ==
  [][constructed = "none" /\ constructed' # "none"
       => /\ constructed' = "ok"
          /\ client' \in OptionInputs
          /\ calls' = calls
          /\ \A s \in Calls : calls'[s].invoked = <<>>]_vars

\* a client constructed with an empty API key
C7_Witness ==
  /\ constructed = "ok"
  /\ client.api_key = ""

\* the role a valid lower-cased role string stands for
RoleOf(lower) ==
  IF lower = s_user THEN "User"
  ELSE IF lower = s_assistant THEN "Assistant"
  ELSE "System"

\* C8: with every role valid, the client receives as many messages as the
\* caller gave, in the caller's order, the i-th with the i-th content and the
\* i-th role lower-cased and mapped; text_to_cypher and cypher_only hand over
\* exactly one User message holding the question.
C8_MessagesPreserved ==
  \A s \in Calls :
    /\ (calls[s].op = "text_to_cypher_with_messages" /\ ~HasBadRole(calls[s].messages))
         => /\ Len(calls[s].invoked) = 1
            /\ Len(calls[s].invoked[1].messages) = Len(calls[s].messages)
            /\ \A i \in 1..Len(calls[s].messages) :
                 /\ calls[s].invoked[1].messages[i].content = calls[s].messages[i].content
                 /\ calls[s].invoked[1].messages[i].role =
                      RoleOf(to_lowercase(calls[s].messages[i].role))
    /\ calls[s].op \in {"text_to_cypher", "cypher_only"}
         => /\ Len(calls[s].invoked) = 1
            /\ calls[s].invoked[1].messages =
                 <<[role |-> "User", content |-> calls[s].question]>>

\* a two-message conversation with different roles and different contents,
\* one role written in capitals, handed to the client
C8_Witness ==
  \E s \in Calls :
    /\ calls[s].op = "text_to_cypher_with_messages"
    /\ Len(calls[s].invoked) = 1
    /\ Len(calls[s].messages) = 2
    /\ calls[s].messages[1].content # calls[s].messages[2].content
    /\ to_lowercase(calls[s].messages[1].role) = s_assistant
    /\ calls[s].messages[1].role # s_assistant
    /\ to_lowercase(calls[s].messages[2].role) = s_user

\* what a finished call delivers when it runs alone: a function of its own
\* arguments and of what the client returned to it
AloneOutcome(c) ==
  IF c.op = "list_models" THEN OkList(all_models)
  ELSE IF c.op = "list_models_by_provider" THEN models_of(c.provider)
  ELSE IF c.op = "text_to_cypher_with_messages" /\ HasBadRole(c.messages)
    THEN Rejected(collect(c.messages).error)
  ELSE IF c.op = "discover_schema"
    THEN IF c.returned.ok THEN OkText(c.returned.text)
         ELSE Rejected(fmt_schema \o c.returned.error)
  ELSE IF c.returned.ok THEN OkResponse(c.returned.response)
  ELSE Rejected((IF c.op = "cypher_only" THEN fmt_cypher ELSE fmt_t2c)
                  \o c.returned.error)

\* C9: once constructed the configuration never changes; a step of one call
\* changes no other call; and every finished call has the outcome it has
\* when run alone, whatever the other calls did, failed ones included.
C9_NoSharedMutation ==
  [][/\ constructed = "ok" => (client' = client /\ constructed' = "ok")
     /\ \A s, t \in Calls :
          (s # t /\ calls'[s] # calls[s]) => calls'[t] = calls[t]
     /\ \A s \in Calls :
          calls'[s].pc = "done" => calls'[s].outcome = AloneOutcome(calls'[s])]_vars

\* one call was rejected and another, in flight at the same time or later,
\* got a response
C9_Witness ==
  \E s, t \in Calls :
    /\ s # t
    /\ calls[s].pc = "done"
    /\ calls[s].outcome.kind = "err"
    /\ calls[s].invoked = <<>>
    /\ calls[t].pc = "done"
    /\ calls[t].outcome.kind = "ok_response"
    /\ client \in OptionInputs

\* the lists list_models_by_provider returns for providers[1..], concatenated
RECURSIVE ByProviderConcat(_)
ByProviderConcat(providers) ==
  IF providers = <<>> THEN <<>>
  ELSE models_of(Head(providers)).list \o ByProviderConcat(Tail(providers))

====
